---- MODULE Spec2Model ----
(***************************************************************************)
(* Model of table_analysis.TableAnalyzer and of the boundary layer        *)
(* script.display_document_object.                                         *)
(*                                                                         *)
(* Python values are represented as follows.                               *)
(*   - an insertion-ordered dict is a sequence of [key, val] records;      *)
(*   - an attribute that can be None is <<>> (None) or <<v>> (the value);  *)
(*   - a float is an integer number of hundredths where it is a rounded    *)
(*     statistic, and a record [nan, num] where it can be not-a-number;    *)
(*   - the outcome of a call is [op, args, status, value]: status is "ok"  *)
(*     or the name of the exception the call raised.                       *)
(***************************************************************************)
EXTENDS Integers, Sequences, FiniteSets, TLC

VARIABLES
    document,                  \* self.document
    tables,                    \* self.tables
    tagged_tables,             \* self.tagged_tables
    fields_outside_of_tables,  \* self.fields_outside_of_tables
    table_values,              \* self.table_values
    ret,                       \* outcome of the last call made on the analyzer
    screen,                    \* what display_document_object has rendered
    inbox                      \* the inputs still to be handed to the program

vars == <<document, tables, tagged_tables, fields_outside_of_tables,
          table_values, ret, screen, inbox>>

----------------------------------------------------------------------------
(* Bounds of the model *)

\* a document holds at most this many entries, all categories together
MaxEntries == 3
\* a document holds at most this many tables
MaxTables == 2
\* a grid handed to get_table_values holds at most this many cells
MaxCells == 4
\* a document of a reuse run holds at most this many entries
MaxReuseEntries == 1

----------------------------------------------------------------------------
(* Python containers *)

None == <<>>
Some(v) == <<v>>

Range(s) == {s[i] : i \in 1..Len(s)}

\* k in d
HasKey(d, k) == \E i \in 1..Len(d) : d[i].key = k

\* d.keys(), as a sequence in insertion order
KeySeq(d) == [i \in 1..Len(d) |-> d[i].key]

Keys(d) == {d[i].key : i \in 1..Len(d)}

\* d[k], for k in d
Get(d, k) == d[CHOOSE i \in 1..Len(d) : d[i].key = k].val

\* d[k] = v: a new key goes last, an old key keeps its place
Put(d, k, v) ==
    IF HasKey(d, k)
    THEN [i \in 1..Len(d) |-> IF d[i].key = k THEN [key |-> k, val |-> v] ELSE d[i]]
    ELSE Append(d, [key |-> k, val |-> v])

RECURSIVE SumSeq(_)
SumSeq(s) == IF s = <<>> THEN 0 ELSE Head(s) + SumSeq(Tail(s))

RECURSIVE SumSquares(_)
SumSquares(s) == IF s = <<>> THEN 0 ELSE Head(s) * Head(s) + SumSquares(Tail(s))

----------------------------------------------------------------------------
(* The document: categories of entries, each entry with tags and a value *)

\* table_py_name, the constructor's default
table_name == "tables__table"

\* threshold, the constructor's default, in percent
threshold == 50

FieldCategories == <<"revenue", "cost">>

\* cells of a table's grid, as the document holds them
Cells == {"1", "2.0", "x"}

\* the grids of the documents' tables: no row, no parsable cell, some
GridSamples ==
    { <<>>,
      << <<"x", "NaN">> >>,
      << <<"1", "2.0", "x">>, <<"3", "NaN", "4">> >> }

\* tag regions: a page and the area covered, as a set of unit squares
Regions ==
    { [page |-> 1, box |-> {1}],
      [page |-> 1, box |-> {1, 2}],
      [page |-> 3, box |-> {2}] }

\* the regions of the fields' tags
FieldRegions ==
    { [page |-> 1, box |-> {1, 2}],
      [page |-> 3, box |-> {2}] }

FieldValues == {100, 200}

NoGrid == <<>>

Tag(r, g) == [page |-> r.page, box |-> r.box, df |-> g]

FieldEntries ==
    { [tags |-> <<>>, value |-> 0] }
    \cup { [tags |-> <<Tag(r, NoGrid)>>, value |-> v] : r \in FieldRegions, v \in FieldValues }

TableEntries ==
    { [tags |-> <<>>, value |-> 0] }
    \cup { [tags |-> <<Tag(r, g)>>, value |-> 0] : r \in Regions, g \in GridSamples }

SeqsOfLen(S, n) == [1..n -> S]

\* where the table category stands in document.x
TablePlaces == {"absent", "first", "last"}

\* document.x: the field categories that have entries, and the table category
\* before or after them
DocX(place, tabs, rev, cost) ==
    LET tabcat == << [key |-> table_name, val |-> tabs] >>
        fields ==
            (IF rev # <<>> THEN << [key |-> FieldCategories[1], val |-> rev] >> ELSE <<>>)
            \o (IF cost # <<>> THEN << [key |-> FieldCategories[2], val |-> cost] >> ELSE <<>>)
    IN CASE place = "first" -> tabcat \o fields
         [] place = "last" -> fields \o tabcat
         [] OTHER -> fields

Document(x, is_xbrl) == [x |-> x, is_xbrl |-> is_xbrl]

\* the shapes of a document of at most n entries, at most m of them tables:
\* the number of tables, of entries of either field category, and the place of
\* the table category
DocShapes(n, m) ==
    {s \in (0..n) \X (0..n) \X (0..n) \X TablePlaces :
        /\ s[1] <= m /\ s[1] + s[2] + s[3] <= n
        /\ (s[1] > 0 => s[4] # "absent")
        /\ (s[2] + s[3] = 0 => s[4] # "last")}

\* the documents of a shape
DocsOfShape(s, is_xbrl) ==
    {Document(DocX(s[4], t, r, c), is_xbrl) :
        t \in SeqsOfLen(TableEntries, s[1]),
        r \in SeqsOfLen(FieldEntries, s[2]),
        c \in SeqsOfLen(FieldEntries, s[3])}

----------------------------------------------------------------------------
(* Collaborators: tag matching, table indexing, numeric parsing *)

\* IQModel.matches(a, b, threshold): the two tags lie on one page and their
\* overlap, as a share of the area they cover together, reaches the threshold
matches(a, b, th) ==
    /\ a.page = b.page
    /\ 100 * Cardinality(a.box \cap b.box) >= th * Cardinality(a.box \cup b.box)

RECURSIVE PagesInOrder(_, _)
PagesInOrder(tabs, seen) ==
    IF tabs = <<>> THEN <<>>
    ELSE LET p == Head(tabs).tags[1].page IN
         IF p \in seen THEN PagesInOrder(Tail(tabs), seen)
         ELSE <<p>> \o PagesInOrder(Tail(tabs), seen \cup {p})

OnPage(tabs, p) == SelectSeq(tabs, LAMBDA t : t.tags[1].page = p)

RECURSIVE IndexPages(_, _)
IndexPages(tabs, pages) ==
    IF pages = <<>> THEN <<>>
    ELSE LET on == OnPage(tabs, Head(pages)) IN
         [i \in 1..Len(on) |-> [key |-> <<Head(pages), i - 1>>, val |-> on[i]]]
         \o IndexPages(tabs, Tail(pages))

\* assign_indices_to_tables(tables): a dict from (page number, ordinal on that
\* page) to the table, pages in the order they first occur
assign_indices_to_tables(tabs) == IndexPages(tabs, PagesInOrder(tabs, {}))

NaN == [nan |-> TRUE, num |-> 0]
Num(n) == [nan |-> FALSE, num |-> n]

\* NumericParser(value).parse_numeric()
parse_numeric(cell) ==
    CASE cell = "1" -> Num(1)
      [] cell = "2.0" -> Num(2)
      [] cell = "3" -> Num(3)
      [] cell = "4" -> Num(4)
      [] OTHER -> NaN

----------------------------------------------------------------------------
(* TableAnalyzer *)

\* the attributes __init__ sets
NewAnalyzer ==
    [document |-> None, tables |-> None, tagged_tables |-> <<>>,
     fields_outside_of_tables |-> <<>>, table_values |-> None]

\* the loop of get_table_dict: the tables that carry a tag, in their order
TaggedOnly(entries) == SelectSeq(entries, LAMBDA t : t.tags # <<>>)

\* faulty variant of get_table_dict: the tables without tags are kept
get_table_dict_unfiltered(doc) ==
    IF ~HasKey(doc.x, table_name)
    THEN [status |-> "KeyError", tables |-> <<>>]
    ELSE LET all == Get(doc.x, table_name)
             page(t) == IF t.tags = <<>> THEN 0 ELSE t.tags[1].page
             pages == {page(all[i]) : i \in 1..Len(all)}
             ordinal(i) == Cardinality({j \in 1..(i - 1) : page(all[j]) = page(all[i])})
         IN [status |-> "ok",
             tables |-> [i \in 1..Len(all) |->
                            [key |-> <<page(all[i]), ordinal(i)>>, val |-> all[i]]]]

\* get_table_dict: [status, tables], the value assigned to self.tables
get_table_dict(doc) ==
    IF ~HasKey(doc.x, table_name)
    THEN [status |-> "KeyError", tables |-> <<>>]
    ELSE [status |-> "ok",
          tables |-> assign_indices_to_tables(TaggedOnly(Get(doc.x, table_name)))]

\* faulty variant of RecordOutside: a later instance replaces the earlier ones
RecordOutsideOverwrite(outside, py_name, field) ==
    Put(outside, py_name, << <<field.tags[1].page, field.value>> >>)

\* the else branch of check_field_value_in_table's loop
RecordOutside(outside, py_name, field) ==
    LET item == <<field.tags[1].page, field.value>> IN
    IF HasKey(outside, py_name)
    THEN Put(outside, py_name, Append(Get(outside, py_name), item))
    ELSE Put(outside, py_name, <<item>>)

\* the loop of check_field_value_in_table from the i-th table on;
\* st is [tagged_tables, fields_outside_of_tables, exc]
RECURSIVE ScanTables(_, _, _, _, _)
ScanTables(st, tabs, py_name, field, i) ==
    IF i > Len(tabs)
    THEN [st EXCEPT !.fields_outside_of_tables = RecordOutside(@, py_name, field)]
    ELSE IF tabs[i].val.tags = <<>>
    THEN [st EXCEPT !.exc = "IndexError"]
    ELSE IF matches(field.tags[1], tabs[i].val.tags[1], threshold)
    THEN IF ~HasKey(st.tagged_tables, tabs[i].key)
         THEN [st EXCEPT !.tagged_tables = Put(@, tabs[i].key, tabs[i].val)]
         ELSE st
    ELSE ScanTables(st, tabs, py_name, field, i + 1)

\* faulty variant of check_field_value_in_table: no break after a match, so
\* every matching table is recorded
RECURSIVE ScanTablesNoBreak(_, _, _, _, _, _)
ScanTablesNoBreak(st, tabs, py_name, field, i, found) ==
    IF i > Len(tabs)
    THEN IF found THEN st
         ELSE [st EXCEPT !.fields_outside_of_tables = RecordOutside(@, py_name, field)]
    ELSE IF tabs[i].val.tags = <<>>
    THEN [st EXCEPT !.exc = "IndexError"]
    ELSE IF matches(field.tags[1], tabs[i].val.tags[1], threshold)
    THEN ScanTablesNoBreak(
             IF ~HasKey(st.tagged_tables, tabs[i].key)
             THEN [st EXCEPT !.tagged_tables = Put(@, tabs[i].key, tabs[i].val)]
             ELSE st,
             tabs, py_name, field, i + 1, TRUE)
    ELSE ScanTablesNoBreak(st, tabs, py_name, field, i + 1, found)

check_field_value_no_break(st, tabs, py_name, field) ==
    ScanTablesNoBreak(st, tabs, py_name, field, 1, FALSE)

\* check_field_value_in_table(py_name, field), self.tables being tabs
check_field_value_in_table(st, tabs, py_name, field) ==
    ScanTables(st, tabs, py_name, field, 1)

\* faulty variant of CheckEntries: the loop ends at an entry without tags
RECURSIVE CheckEntriesBreak(_, _, _, _, _)
CheckEntriesBreak(st, tabs, py_name, entries, i) ==
    IF i > Len(entries) \/ st.exc # "" THEN st
    ELSE IF entries[i].tags = <<>> THEN st
    ELSE CheckEntriesBreak(check_field_value_in_table(st, tabs, py_name, entries[i]),
                           tabs, py_name, entries, i + 1)

\* the inner loop of check_fields over document.x[py_name], from entry i on
RECURSIVE CheckEntries(_, _, _, _, _)
CheckEntries(st, tabs, py_name, entries, i) ==
    IF i > Len(entries) \/ st.exc # "" THEN st
    ELSE IF entries[i].tags = <<>>
    THEN CheckEntries(st, tabs, py_name, entries, i + 1)
    ELSE CheckEntries(check_field_value_in_table(st, tabs, py_name, entries[i]),
                      tabs, py_name, entries, i + 1)

\* faulty variant of CheckCategories: the table category is not scanned
RECURSIVE CheckCategoriesSkipTables(_, _, _, _)
CheckCategoriesSkipTables(st, tabs, x, c) ==
    IF c > Len(x) \/ st.exc # "" THEN st
    ELSE IF x[c].key = table_name
    THEN CheckCategoriesSkipTables(st, tabs, x, c + 1)
    ELSE CheckCategoriesSkipTables(CheckEntries(st, tabs, x[c].key, x[c].val, 1),
                                   tabs, x, c + 1)

\* the outer loop of check_fields over document.x, from category c on
RECURSIVE CheckCategories(_, _, _, _)
CheckCategories(st, tabs, x, c) ==
    IF c > Len(x) \/ st.exc # "" THEN st
    ELSE CheckCategories(CheckEntries(st, tabs, x[c].key, x[c].val, 1), tabs, x, c + 1)

\* pd.DataFrame(*fields_dict.values(), index=fields_dict.keys(),
\*              columns=['page', 'field_value']): the first value is the data,
\* one row per tuple of it; a second value meets the index argument twice
DataFrameOfFields(fields_dict) ==
    IF Len(fields_dict) = 0
    THEN [status |-> "ok", value |-> <<>>]
    ELSE IF Len(fields_dict) >= 2
    THEN [status |-> "TypeError", value |-> <<>>]
    ELSE IF Len(fields_dict[1].val) # Len(fields_dict)
    THEN [status |-> "ValueError", value |-> <<>>]
    ELSE [status |-> "ok",
          value |-> << [python_name |-> fields_dict[1].key,
                        page |-> fields_dict[1].val[1][1],
                        field_value |-> fields_dict[1].val[1][2]] >>]

\* check_fields(document) on the analyzer self: [self, status, value]
check_fields(self, doc) ==
    LET td == get_table_dict(doc)
        s1 == [self EXCEPT !.document = Some(doc)]
    IN
    IF td.status # "ok"
    THEN [self |-> s1, status |-> td.status, value |-> <<>>]
    ELSE LET st == CheckCategories(
                       [tagged_tables |-> self.tagged_tables,
                        fields_outside_of_tables |-> self.fields_outside_of_tables,
                        exc |-> ""],
                       td.tables, doc.x, 1)
             s2 == [s1 EXCEPT !.tables = Some(td.tables),
                              !.tagged_tables = st.tagged_tables,
                              !.fields_outside_of_tables = st.fields_outside_of_tables]
             df == DataFrameOfFields(st.fields_outside_of_tables)
         IN IF st.exc # ""
            THEN [self |-> s2, status |-> st.exc, value |-> <<>>]
            ELSE [self |-> s2, status |-> df.status, value |-> df.value]

\* faulty variant of RowValues: the ignored columns are counted from 1
RECURSIVE RowValuesFromOne(_, _, _)
RowValuesFromOne(row, ignored, idx) ==
    IF idx >= Len(row) THEN <<>>
    ELSE IF (idx + 1) \in Range(ignored)
    THEN RowValuesFromOne(row, ignored, idx + 1)
    ELSE LET parsed_value == parse_numeric(row[idx + 1]) IN
         IF parsed_value.nan
         THEN RowValuesFromOne(row, ignored, idx + 1)
         ELSE <<parsed_value.num>> \o RowValuesFromOne(row, ignored, idx + 1)

\* one row of table_df.values from column idx (counted from 0) on
RECURSIVE RowValues(_, _, _)
RowValues(row, ignored, idx) ==
    IF idx >= Len(row) THEN <<>>
    ELSE IF idx \in Range(ignored)
    THEN RowValues(row, ignored, idx + 1)
    ELSE LET parsed_value == parse_numeric(row[idx + 1]) IN
         IF parsed_value.nan
         THEN RowValues(row, ignored, idx + 1)
         ELSE <<parsed_value.num>> \o RowValues(row, ignored, idx + 1)

RECURSIVE GridValues(_, _)
GridValues(rows, ignored) ==
    IF rows = <<>> THEN <<>>
    ELSE RowValues(Head(rows), ignored, 0) \o GridValues(Tail(rows), ignored)

\* get_table_values(table_df, ignored_columns); ignored_columns is None or a list
get_table_values(table_df, ignored_columns) ==
    GridValues(table_df, IF ignored_columns = None THEN <<>> ELSE ignored_columns[1])

\* collect_tables_values from the i-th referenced table on
RECURSIVE CollectFrom(_, _)
CollectFrom(tagged, i) ==
    IF i > Len(tagged) THEN <<>>
    ELSE LET values == get_table_values(tagged[i].val.tags[1].df, None) IN
         IF values = <<>>
         THEN CollectFrom(tagged, i + 1)
         ELSE << [key |-> tagged[i].key, val |-> values] >> \o CollectFrom(tagged, i + 1)

\* faulty variant of collect_tables_values: an empty list is stored too
collect_tables_values_keep_empty(tagged) ==
    [i \in 1..Len(tagged) |->
        [key |-> tagged[i].key, val |-> get_table_values(tagged[i].val.tags[1].df, None)]]

\* collect_tables_values: the value assigned to self.table_values
collect_tables_values(tagged) == CollectFrom(tagged, 1)

\* a / b rounded to an integer, halves to the even neighbour (a >= 0, b > 0)
RoundHalfEven(a, b) ==
    LET q == a \div b
        r == a % b
    IN IF 2 * r < b THEN q
       ELSE IF 2 * r > b THEN q + 1
       ELSE IF q % 2 = 0 THEN q ELSE q + 1

\* np.round(np.average(numbers), 2), in hundredths; nan for no number
calculate_mean(numbers) ==
    IF numbers = <<>> THEN NaN
    ELSE Num(RoundHalfEven(100 * SumSeq(numbers), Len(numbers)))

\* the largest integer whose square is at most m, sought between lo and hi
RECURSIVE FloorSqrt(_, _, _)
FloorSqrt(m, lo, hi) ==
    IF lo >= hi THEN lo
    ELSE LET mid == (lo + hi + 1) \div 2 IN
         IF mid * mid <= m THEN FloorSqrt(m, mid, hi) ELSE FloorSqrt(m, lo, mid - 1)

\* np.round(np.std(numbers), 2), in hundredths: the population deviation
calculate_std(numbers) ==
    IF numbers = <<>> THEN NaN
    ELSE LET n == Len(numbers)
             \* n^2 times the variance
             v == n * SumSquares(numbers) - SumSeq(numbers) * SumSeq(numbers)
             \* the deviation in hundredths is sqrt(10000 * v) / n; twice it is
             \* sqrt(40000 * v) / n
             root == FloorSqrt(40000 * v, 0, 200 * n * (1 + SumSeq(numbers)))
             up == (root + n) \div (2 * n)
             half == (2 * up - 1) * n
         IN IF half * half = 40000 * v /\ up % 2 = 1 THEN Num(up - 1) ELSE Num(up)

\* the rows get_table_results builds from self.table_values
StatisticsRows(values) ==
    [i \in 1..Len(values) |->
        [mean |-> calculate_mean(values[i].val),
         std |-> calculate_std(values[i].val),
         page_number |-> values[i].key[1],
         table_index |-> values[i].key[2]]]

\* get_table_results() on the analyzer self: [self, status, value]
get_table_results(self) ==
    LET tv == collect_tables_values(self.tagged_tables) IN
    [self |-> [self EXCEPT !.table_values = Some(tv)],
     status |-> "ok",
     value |-> StatisticsRows(tv)]

----------------------------------------------------------------------------
(* The boundary layer *)

Shown(kind, text, rows) == [kind |-> kind, text |-> text, rows |-> rows]

\* the try block of display_document_object on a new analyzer:
\* [self, status, screen], status the exception that leaves the function
TableAnalysis(doc) ==
    LET cf == check_fields(NewAnalyzer, doc)
        gr == get_table_results(cf.self)
        head == << Shown("title", "Document Analysis Results", <<>>),
                   Shown("subheader", "Table Analysis", <<>>) >>
    IN
    IF cf.status = "KeyError"
    THEN [self |-> cf.self, status |-> "ok",
          screen |-> Append(head,
              Shown("error", "The provided document object has no tables under the key", <<>>))]
    ELSE IF cf.status # "ok"
    THEN [self |-> cf.self, status |-> cf.status, screen |-> head]
    ELSE [self |-> gr.self, status |-> "ok",
          screen |-> head
              \o << Shown("write", "Mean and Standard Deviation of Tables:", <<>>) >>
              \o (IF gr.value = <<>>
                  THEN << Shown("error", "There are no tagged tables in this documents", <<>>) >>
                  ELSE << Shown("dataframe", "", gr.value) >>)
              \o << Shown("write", "Fields Outside of Tables:", <<>>) >>
              \o (IF cf.value = <<>>
                  THEN << Shown("error", "There are no fields tagged outside of tables", <<>>) >>
                  ELSE << Shown("write", "", cf.value) >>)]

----------------------------------------------------------------------------
(* State and operations *)

Self ==
    [document |-> document, tables |-> tables, tagged_tables |-> tagged_tables,
     fields_outside_of_tables |-> fields_outside_of_tables,
     table_values |-> table_values]

SetSelf(self) ==
    /\ document' = self.document
    /\ tables' = self.tables
    /\ tagged_tables' = self.tagged_tables
    /\ fields_outside_of_tables' = self.fields_outside_of_tables
    /\ table_values' = self.table_values

\* a call made: the operation, its arguments, and how it ended
Outcome(op, args, status, value) ==
    [op |-> op, args |-> args, status |-> status, value |-> value]

NoCall == Outcome("", <<>>, "ok", <<>>)

InitAnalyzer ==
    /\ document = None
    /\ tables = None
    /\ tagged_tables = <<>>
    /\ fields_outside_of_tables = <<>>
    /\ table_values = None
    /\ ret = NoCall
    /\ screen = <<>>

\* check_fields(document), on the next document at hand
CheckFields ==
    /\ inbox # <<>>
    /\ LET r == check_fields(Self, Head(inbox)) IN
       /\ SetSelf(r.self)
       /\ ret' = Outcome("check_fields", <<Head(inbox)>>, r.status, r.value)
    /\ inbox' = Tail(inbox)
    /\ UNCHANGED screen

\* get_table_results()
GetTableResults ==
    /\ LET r == get_table_results(Self) IN
       /\ SetSelf(r.self)
       /\ ret' = Outcome("get_table_results", <<>>, r.status, r.value)
    /\ UNCHANGED <<screen, inbox>>

\* display_document_object, on the next document at hand
DisplayDocumentObject ==
    /\ inbox # <<>>
    /\ LET doc == Head(inbox) IN
       IF doc.is_xbrl
       THEN /\ screen' = << Shown("title", "Document Analysis Results", <<>>),
                            Shown("error",
                                  "Document is in XBRL format, which is not supported for this analysis.",
                                  <<>>) >>
            /\ ret' = Outcome("display_document_object", <<doc>>, "ok", <<>>)
            /\ UNCHANGED <<document, tables, tagged_tables,
                           fields_outside_of_tables, table_values>>
       ELSE LET r == TableAnalysis(doc) IN
            /\ SetSelf(r.self)
            /\ screen' = r.screen
            /\ ret' = Outcome("display_document_object", <<doc>>, r.status, <<>>)
    /\ inbox' = Tail(inbox)

\* get_table_values(table_df, ignored_columns), on the next grid at hand
GetTableValues ==
    /\ inbox # <<>>
    /\ ret' = Outcome("get_table_values",
                      <<Head(inbox).table_df, Head(inbox).ignored_columns>>, "ok",
                      get_table_values(Head(inbox).table_df, Head(inbox).ignored_columns))
    /\ inbox' = Tail(inbox)
    /\ UNCHANGED <<document, tables, tagged_tables, fields_outside_of_tables,
                   table_values, screen>>

\* check_field_value_in_table(py_name, field), on the next field at hand
CheckFieldValueInTable ==
    /\ inbox # <<>>
    /\ tables # None
    /\ LET st == check_field_value_in_table(
                     [tagged_tables |-> tagged_tables,
                      fields_outside_of_tables |-> fields_outside_of_tables,
                      exc |-> ""],
                     tables[1], Head(inbox).py_name, Head(inbox).field) IN
       /\ tagged_tables' = st.tagged_tables
       /\ fields_outside_of_tables' = st.fields_outside_of_tables
       /\ ret' = Outcome("check_field_value_in_table",
                         <<Head(inbox).py_name, Head(inbox).field>>,
                         IF st.exc = "" THEN "ok" ELSE st.exc, <<>>)
    /\ inbox' = Tail(inbox)
    /\ UNCHANGED <<document, tables, table_values, screen>>

----------------------------------------------------------------------------
(* Specifications *)

\* one run of the program: a new analyzer and one fetched document; the
\* content of a document in XBRL format is never read
Init ==
    /\ InitAnalyzer
    /\ \/ \E s \in DocShapes(MaxEntries, MaxTables) :
              \E d \in DocsOfShape(s, FALSE) : inbox = <<d>>
       \/ \E s \in DocShapes(1, 1) :
              \E d \in DocsOfShape(s, TRUE) : inbox = <<d>>

Next ==
    \/ CheckFields
    \/ GetTableResults
    \/ DisplayDocumentObject

Spec == Init /\ [][Next]_vars

\* one analyzer handed two documents, one after the other
InitReuse ==
    /\ InitAnalyzer
    /\ \E s \in DocShapes(MaxReuseEntries, MaxReuseEntries) :
       \E t \in DocShapes(MaxReuseEntries, MaxReuseEntries) :
           \E a \in DocsOfShape(s, FALSE) : \E b \in DocsOfShape(t, FALSE) :
               inbox = <<a, b>>

NextReuse ==
    \/ CheckFields
    \/ GetTableResults

SpecReuse == InitReuse /\ [][NextReuse]_vars

\* the tagged entries of a document, as check_fields hands them on
RECURSIVE TaggedCalls(_, _)
TaggedCalls(x, c) ==
    IF c > Len(x) THEN <<>>
    ELSE LET tagged == SelectSeq(x[c].val, LAMBDA e : e.tags # <<>>) IN
         [i \in 1..Len(tagged) |-> [py_name |-> x[c].key, field |-> tagged[i]]]
         \o TaggedCalls(x, c + 1)

\* check_fields has set the document and built the table index, and is about
\* to evaluate the document's entries
InitMatcher ==
    \E s \in DocShapes(MaxEntries, MaxTables) : \E d \in DocsOfShape(s, FALSE) :
        /\ get_table_dict(d).status = "ok"
        /\ document = Some(d)
        /\ tables = Some(get_table_dict(d).tables)
        /\ tagged_tables = <<>>
        /\ fields_outside_of_tables = <<>>
        /\ table_values = None
        /\ ret = NoCall
        /\ screen = <<>>
        /\ inbox = TaggedCalls(d.x, 1)

NextMatcher == CheckFieldValueInTable

SpecMatcher == InitMatcher /\ [][NextMatcher]_vars

\* the grids of r rows and c columns
GridsOf(r, c) == [1..r -> [1..c -> Cells]]

Grids ==
    UNION { UNION { GridsOf(r, c) : c \in {k \in 0..MaxCells : r * k <= MaxCells} }
            : r \in 0..MaxCells }

\* what a caller may pass as ignored_columns of a grid: nothing, or a list of
\* column numbers
IgnoredColumns(g) ==
    LET width == IF g = <<>> THEN 0 ELSE Len(g[1])
        cols == 0..width
    IN {None} \cup {Some(<<>>)} \cup {Some(<<i>>) : i \in cols}
       \cup {Some(<<i, j>>) : i \in cols, j \in cols}

InitValues ==
    /\ InitAnalyzer
    /\ \E g \in Grids : \E ig \in IgnoredColumns(g) :
           inbox = << [table_df |-> g, ignored_columns |-> ig] >>

NextValues == GetTableValues

SpecValues == InitValues /\ [][NextValues]_vars

----------------------------------------------------------------------------
(* Properties *)

\* the document the analyzer holds
Doc == document[1]

\* the entries of every category of document x, each with its category
EntriesOf(x) ==
    UNION { {[py_name |-> x[c].key, field |-> x[c].val[i], cat |-> c, pos |-> i] :
                i \in 1..Len(x[c].val)} : c \in 1..Len(x) }

\* the places in the table index tabs whose table matches the entry's first tag
MatchingPlaces(tabs, field) ==
    {i \in 1..Len(tabs) : matches(field.tags[1], tabs[i].val.tags[1], threshold)}

Least(S) == CHOOSE i \in S : \A j \in S : i <= j

\* C1: after check_fields(A) and then check_fields(B) on one analyzer, the
\* referenced tables, the unmatched fields and both reports are those a new
\* analyzer produces for B alone (stated for a B that has the table category,
\* so that both calls run to their end).
C1_SequentialReuseSafe ==
    (inbox = <<>> /\ document # None /\ HasKey(Doc.x, table_name)) =>
        LET fresh == check_fields(NewAnalyzer, Doc) IN
        /\ tagged_tables = fresh.self.tagged_tables
        /\ fields_outside_of_tables = fresh.self.fields_outside_of_tables
        /\ (ret.op = "check_fields" =>
                ret.status = fresh.status /\ ret.value = fresh.value)
        /\ (ret.op = "get_table_results" =>
                ret.value = get_table_results(fresh.self).value)

\* C2: check_fields does not fail on a document that has the table category,
\* and its report has exactly one row per category with an unmatched instance.
C2_OneRowPerUnmatchedCategory ==
    (ret.op = "check_fields" /\ HasKey(ret.args[1].x, table_name)) =>
        /\ ret.status = "ok"
        /\ [i \in 1..Len(ret.value) |-> ret.value[i].python_name]
               = KeySeq(fields_outside_of_tables)

\* C3: when the first tag of the field handed to check_field_value_in_table
\* matches two or more indexed tables, the call records the first of them in
\* the order of the index, unless it is recorded already, records no other
\* table, and lists the field nowhere.
C3_FirstMatchWins ==
    [][(ret'.op = "check_field_value_in_table" /\ inbox # <<>> /\ tables # None) =>
        LET tabs == tables[1]
            M == MatchingPlaces(tabs, Head(inbox).field)
        IN Cardinality(M) >= 2 =>
            LET first == tabs[Least(M)] IN
            /\ tagged_tables' =
                   IF first.key \in Keys(tagged_tables) THEN tagged_tables
                   ELSE Append(tagged_tables, [key |-> first.key, val |-> first.val])
            /\ fields_outside_of_tables' = fields_outside_of_tables
            /\ \A i \in M \ {Least(M)} :
                   tabs[i].key \in Keys(tagged_tables') => tabs[i].key \in Keys(tagged_tables)
      ]_vars

\* C3 happens: every entry is evaluated, a field of a field category matches
\* two indexed tables, the first is recorded and the second is not.
C3_Witness ==
    /\ inbox = <<>> /\ tables # None /\ document # None
    /\ \E e \in EntriesOf(Doc.x) :
           /\ e.py_name # table_name
           /\ e.field.tags # <<>>
           /\ LET M == MatchingPlaces(tables[1], e.field) IN
              /\ Cardinality(M) >= 2
              /\ tables[1][Least(M)].key \in Keys(tagged_tables)
              /\ \E i \in M : tables[1][i].key \notin Keys(tagged_tables)

\* C4: no table without tags is in the table index, in the referenced set, in
\* table_values or in the Table Statistics report.
C4_UntaggedTableNeverIndexed ==
    /\ tables # None => \A i \in 1..Len(tables[1]) : tables[1][i].val.tags # <<>>
    /\ \A i \in 1..Len(tagged_tables) : tagged_tables[i].val.tags # <<>>
    /\ (tables # None /\ document # None /\ HasKey(Doc.x, table_name)) =>
           /\ Len(tables[1]) =
                  Cardinality({i \in 1..Len(Get(Doc.x, table_name)) :
                                  Get(Doc.x, table_name)[i].tags # <<>>})
           /\ Keys(tagged_tables) \subseteq Keys(tables[1])
    /\ table_values # None =>
           \A i \in 1..Len(table_values[1]) :
               /\ HasKey(tagged_tables, table_values[1][i].key)
               /\ Get(tagged_tables, table_values[1][i].key).tags # <<>>
    /\ ret.op = "get_table_results" =>
           \A i \in 1..Len(ret.value) :
               /\ HasKey(tagged_tables, <<ret.value[i].page_number, ret.value[i].table_index>>)
               /\ Get(tagged_tables,
                      <<ret.value[i].page_number, ret.value[i].table_index>>).tags # <<>>

\* C4 happens: the document holds a table without tags beside a tagged one,
\* and the report has a row.
C4_Witness ==
    /\ ret.op = "get_table_results" /\ ret.value # <<>>
    /\ document # None /\ HasKey(Doc.x, table_name)
    /\ \E i \in 1..Len(Get(Doc.x, table_name)) : Get(Doc.x, table_name)[i].tags = <<>>

\* C5: when the first tag of the field handed to check_field_value_in_table
\* matches no indexed table, (page of the first tag, value) is appended to the
\* list under the field's category, after the instances listed before, and
\* nothing else changes; a field that matches a table adds no entry. So every
\* key of the map has a non-empty list.
C5_UnmatchedRecorded ==
    [][(ret'.op = "check_field_value_in_table" /\ inbox # <<>> /\ tables # None) =>
        LET py_name == Head(inbox).py_name
            field == Head(inbox).field
            old == fields_outside_of_tables
            new == fields_outside_of_tables'
            item == <<field.tags[1].page, field.value>>
        IN IF MatchingPlaces(tables[1], field) = {}
           THEN /\ tagged_tables' = tagged_tables
                /\ KeySeq(new) = IF py_name \in Keys(old) THEN KeySeq(old)
                                 ELSE Append(KeySeq(old), py_name)
                /\ Get(new, py_name) =
                       Append(IF py_name \in Keys(old) THEN Get(old, py_name) ELSE <<>>, item)
                /\ \A k \in Keys(old) \ {py_name} : Get(new, k) = Get(old, k)
           ELSE new = old
      ]_vars

\* C5 happens: every entry is evaluated, one category lists its two unmatched
\* instances in the order of the document, and an entry that matched a table
\* is listed nowhere.
C5_Witness ==
    /\ inbox = <<>> /\ tables # None /\ document # None
    /\ \E k \in Keys(fields_outside_of_tables) :
           /\ k # table_name
           /\ Len(Get(Doc.x, k)) = 2
           /\ \A i \in 1..2 : Get(Doc.x, k)[i].tags # <<>>
           /\ Get(fields_outside_of_tables, k) =
                  [i \in 1..2 |-> <<Get(Doc.x, k)[i].tags[1].page, Get(Doc.x, k)[i].value>>]
           /\ Get(Doc.x, k)[1].value # Get(Doc.x, k)[2].value
    /\ \E e \in EntriesOf(Doc.x) :
           /\ e.field.tags # <<>>
           /\ MatchingPlaces(tables[1], e.field) # {}
           /\ e.py_name \notin Keys(fields_outside_of_tables)

\* C6: display_document_object lets no error of check_fields or
\* get_table_results escape, and for a document without the table category it
\* shows the message of the KeyError handler.
C6_BoundaryCatchesErrors ==
    ret.op = "display_document_object" =>
        /\ ret.status = "ok"
        /\ (~ret.args[1].is_xbrl /\ ~HasKey(ret.args[1].x, table_name)) =>
               screen[Len(screen)] =
                   Shown("error", "The provided document object has no tables under the key", <<>>)

\* the grid of a table's first tag holds a cell that parses to a number
Parsable(table) ==
    LET df == table.tags[1].df IN
    \E r \in 1..Len(df) : \E c \in 1..Len(df[r]) : ~parse_numeric(df[r][c]).nan

\* C7: after get_table_results, a referenced table has a key in table_values
\* exactly when its first tag's grid holds a parsable cell; every list in
\* table_values is non-empty; the report has one row per key of table_values,
\* in its order.
C7_EmptyAggregationSkipped ==
    ret.op = "get_table_results" =>
        /\ table_values # None
        /\ \A i \in 1..Len(tagged_tables) :
               HasKey(table_values[1], tagged_tables[i].key) <=> Parsable(tagged_tables[i].val)
        /\ Keys(table_values[1]) \subseteq Keys(tagged_tables)
        /\ \A i \in 1..Len(table_values[1]) : table_values[1][i].val # <<>>
        /\ [i \in 1..Len(ret.value) |-> <<ret.value[i].page_number, ret.value[i].table_index>>]
               = KeySeq(table_values[1])

\* C7 happens: of two referenced tables one has no parsable cell, and the
\* report has the row of the other.
C7_Witness ==
    /\ ret.op = "get_table_results"
    /\ Len(ret.value) = 1
    /\ Len(tagged_tables) = 2
    /\ \E i \in 1..2 : ~Parsable(tagged_tables[i].val) /\ tagged_tables[i].val.tags[1].df # <<>>

\* document x without the entries that have no tags
Strip(x) ==
    [c \in 1..Len(x) |->
        [key |-> x[c].key, val |-> SelectSeq(x[c].val, LAMBDA e : e.tags # <<>>)]]

\* C8: check_fields leaves the referenced tables, the unmatched fields and its
\* report as they are for the document without its untagged entries: an entry
\* without tags records nothing and does not stop the entries after it.
C8_UntaggedFieldNotEvaluated ==
    (document # None /\ ret.op \in {"check_fields", "get_table_results"}) =>
        LET without == check_fields(NewAnalyzer, Document(Strip(Doc.x), Doc.is_xbrl)) IN
        /\ tagged_tables = without.self.tagged_tables
        /\ fields_outside_of_tables = without.self.fields_outside_of_tables
        /\ (ret.op = "check_fields" =>
                ret.status = without.status /\ ret.value = without.value)

\* C8 happens: a field category holds an entry without tags before a tagged
\* entry, and the tagged entry is listed as unmatched.
C8_Witness ==
    /\ ret.op = "check_fields" /\ document # None
    /\ \E c \in 1..Len(Doc.x) :
           /\ Doc.x[c].key # table_name
           /\ Len(Doc.x[c].val) >= 2
           /\ Doc.x[c].val[1].tags = <<>>
           /\ Doc.x[c].val[2].tags # <<>>
           /\ HasKey(fields_outside_of_tables, Doc.x[c].key)

\* the cells of the grid in row-major order from the k-th on (the grid has
\* width columns), those of an ignored column or without a number left out
RECURSIVE KeptFrom(_, _, _, _)
KeptFrom(df, width, ignored, k) ==
    IF k > Len(df) * width THEN <<>>
    ELSE LET r == ((k - 1) \div width) + 1
             c == (k - 1) % width
             parsed == parse_numeric(df[r][c + 1])
         IN (IF c \notin ignored /\ ~parsed.nan THEN <<parsed.num>> ELSE <<>>)
            \o KeptFrom(df, width, ignored, k + 1)

\* C9: get_table_values returns the parsable cells of the columns that are not
\* ignored, in row-major order; with ignored_columns omitted no column is
\* skipped.
C9_RowMajorValues ==
    ret.op = "get_table_values" =>
        LET df == ret.args[1]
            width == IF df = <<>> THEN 0 ELSE Len(df[1])
            ignored == IF ret.args[2] = None THEN {} ELSE Range(ret.args[2][1])
        IN ret.value = KeptFrom(df, width, ignored, 1)

\* C9 happens: a grid of two rows and two columns with an ignored column that
\* holds a number, a kept cell without a number and a kept number.
C9_Witness ==
    /\ ret.op = "get_table_values"
    /\ Len(ret.args[1]) = 2 /\ Len(ret.args[1][1]) = 2
    /\ ret.args[2] = Some(<<0>>)
    /\ ~parse_numeric(ret.args[1][1][1]).nan
    /\ parse_numeric(ret.args[1][1][2]).nan
    /\ ret.value = <<2>>

\* C10: after check_fields on a new analyzer, the referenced tables are
\* exactly the first tables, in the order of the index, that match the first
\* tag of a tagged entry of the document, the entries of the table category
\* included.
C10_ReferencedIffFirstMatch ==
    (document # None /\ tables # None /\ HasKey(Doc.x, table_name)) =>
        Keys(tagged_tables) =
            {tables[1][Least(MatchingPlaces(tables[1], e.field))].key :
                e \in {f \in EntriesOf(Doc.x) :
                          /\ f.field.tags # <<>>
                          /\ MatchingPlaces(tables[1], f.field) # {}}}

\* C10 happens: the document holds nothing but tagged tables, and a table is
\* referenced on behalf of a table entry.
C10_Witness ==
    /\ ret.op = "check_fields" /\ document # None /\ tables # None
    /\ Len(Doc.x) = 1 /\ Doc.x[1].key = table_name
    /\ Len(tables[1]) = 2
    /\ Len(tagged_tables) = 1

====
